---- MODULE Spec2Model ----
(***************************************************************************)
(* Model of iotools: the nested logger and the profiling decorator of      *)
(* iotools/misc/script.py, the Script construction lifecycle driven by     *)
(* ScriptMeta, the FunctionSpec classifier, and Widget.from_argument of    *)
(* iotools/gui/widget/widget.py.                                           *)
(*                                                                         *)
(* Python's control flow is modelled by explicit stacks: one frame per     *)
(* open `with` scope or wrapper invocation, and a variable holding the     *)
(* exception that is propagating, if any.                                  *)
(***************************************************************************)
EXTENDS Integers, Sequences, FiniteSets, TLC

VARIABLES
    log,        \* the NestedPrintLog under test: to_stream, to_file, indentation_level
    verbose,    \* ScriptProfiler.verbose
    stack,      \* open scopes and wrapper invocations on the log, innermost last
    exc,        \* the exception propagating through the scopes, or "none"
    last,       \* the scope or invocation that exited in the last step
    lastwrite,  \* what the last step wrote through the log
    arg,        \* the Argument handed to Widget.from_argument
    handler,    \* what from_argument produced for it
    ref,        \* the member handed to FunctionSpec: parent, name, reference
    fspec,      \* the FunctionSpec built from it
    wrapped,    \* the result of FunctionSpec.wrap
    plog,       \* per class: the log of its ScriptProfiler (cls._profiler.log), 0 for None
    logs,       \* the logs the profilers refer to
    run         \* the last construction: its inputs, what it did, how it ended

logvars == <<log, verbose, stack, exc, last, lastwrite>>
widgetvars == <<arg, handler>>
classvars == <<ref, fspec, wrapped>>
scriptvars == <<plog, logs, run>>
vars == <<logvars, widgetvars, classvars, scriptvars>>

(***************************************************************************)
(* Bounds of the model.                                                    *)
(***************************************************************************)
MaxDepth == 3       \* open scopes and invocations on the log at one time
MaxLevel == 4       \* cap on indentation_level (it can leak, see Raise)

Last(s) == s[Len(s)]
Front(s) == SubSeq(s, 1, Len(s) - 1)

(***************************************************************************)
(* NestedPrintLog                                                          *)
(***************************************************************************)

\* An argument that may be omitted: <<>> is Python's None, <<v>> the value v.
Omitted == <<>>
Given(v) == <<v>>
OptBool == {Omitted, Given(TRUE), Given(FALSE)}

\* Maybe(x).else_(y): x unless it is None.
Else(x, y) == IF x = Omitted THEN y ELSE x[1]

\* NestedPrintLog.__init__ with its defaults: both channels on, depth 0.
NewLog == [to_stream |-> TRUE, to_file |-> TRUE, indentation_level |-> 0]

\* PrintLog.__call__(to_stream, to_file): sets both destination flags and
\* returns the log, to be used as `with log(...)`.
LogCall(l, to_stream, to_file) ==
    [l EXCEPT !.to_stream = to_stream, !.to_file = to_file]

indentation_token == "    "

RECURSIVE Repeat(_, _)
Repeat(tok, n) == IF n <= 0 THEN <<>> ELSE <<tok>> \o Repeat(tok, n - 1)

\* One line of the file: the prefix (the timestamp is left out, the token
\* repeated indentation_level times is kept) and the line; an empty line is
\* written without prefix.
FileLine(l, line) ==
    IF line # "" THEN [indent |-> Repeat(indentation_token, l.indentation_level),
                       line |-> line]
    ELSE [indent |-> <<>>, line |-> ""]

\* NestedPrintLog.write: text is the sequence of its lines (text.split("\n")).
\* The result is what reaches each destination.
write(l, text, to_stream, to_file) ==
    [stream |-> IF Else(to_stream, l.to_stream) THEN text ELSE <<>>,
     file |-> IF Else(to_file, l.to_file)
              THEN [i \in 1..Len(text) |-> FileLine(l, text[i])]
              ELSE <<>>]

\* NestedPrintLog.indentation: the statement before the yield ...
indentation_enter(l) == [l EXCEPT !.indentation_level = @ + 1]
\* ... the statement after the yield, run when the block ends normally ...
indentation_exit(l) == [l EXCEPT !.indentation_level = @ - 1]
\* ... and what runs when the block raises: the generator has no try/finally,
\* the exception is thrown in at the yield and leaves the generator at once.
indentation_fail(l) == l

\* NestedPrintLog.reset_output_channels_soon: the snapshot before the yield,
reset_enter(l) == <<l.to_stream, l.to_file>>
\* the restore after it, run when the block ends normally,
reset_exit(l, saved) == [l EXCEPT !.to_stream = saved[1], !.to_file = saved[2]]
\* and what runs when the block raises (no try/finally here either).
reset_fail(l, saved) == l

(***************************************************************************)
(* ScriptProfiler.__call__.script_wrapper, in the three pieces between     *)
(* which foreign code runs.                                                *)
(***************************************************************************)
StartText == <<"starting...">>
FinishText == <<"finished">>

\* Lines 94-96: snapshot the flags, console on only if verbose, print the
\* start-line (print goes through the log's write with nothing overridden).
wrapper_start(l, verb) ==
    LET l1 == LogCall(l, verb, TRUE)
    IN [log |-> l1, saved |-> reset_enter(l), out |-> write(l1, StartText, Omitted, Omitted)]

\* Lines 98-102: console on, one level deeper, then the callable runs.
wrapper_invoke(l) == indentation_enter(LogCall(l, TRUE, TRUE))

\* Lines 101-108 when the callable returned ret: leave the indentation scope,
\* print the finish-line, restore the flags, return ret.
wrapper_return(l, saved, verb, ret) ==
    LET l1 == LogCall(indentation_exit(l), verb, TRUE)
    IN [log |-> reset_exit(l1, saved),
        out |-> write(l1, FinishText, Omitted, Omitted),
        ret |-> ret]

\* A variant that prints the finish-line on the way out of a failing call, as
\* a try/finally around the callable would.
wrapper_raise_finishes(l, saved, e) ==
    [log |-> l, out |-> write(LogCall(l, TRUE, TRUE), FinishText, Omitted, Omitted), exc |-> e]

\* When the callable raised e: the three scopes are left by the exception;
\* nothing is printed, nothing is caught.
wrapper_raise(l, saved, e) ==
    [log |-> reset_fail(indentation_fail(l), saved),
     out |-> [stream |-> <<>>, file |-> <<>>],
     exc |-> e]

(***************************************************************************)
(* The logger and profiled calls as a state machine.  A frame is an open   *)
(* indentation() scope, an open reset_output_channels_soon() scope, or one *)
(* invocation of a wrapped callable ("call": START once the start-line is  *)
(* printed, RUNNING while the callable executes).                          *)
(***************************************************************************)
Values == {"v1", "v2"}          \* return values of wrapped callables
Excs == {"E1", "E2"}            \* exceptions raised inside scopes
Texts == {<<"a", "", "b">>}      \* texts written by user code, as their lines

NoLast == [kind |-> "none"]
NoWrite == [file |-> <<>>, stream |-> <<>>, depth |-> 0]

\* The number of wrapped callables currently executing.
Depth == Cardinality({i \in 1..Len(stack) : stack[i].kind = "call" /\ stack[i].st = "RUNNING"})

\* User code can run: at top level, or inside the innermost open block.
CanRun == exc = "none" /\ (IF stack = <<>> THEN TRUE ELSE Last(stack).st = "RUNNING")

Frame(kind, st, saved, level, starts) ==
    [kind |-> kind, st |-> st, saved |-> saved, entry_level |-> level, start_lines |-> starts]

Exited(f, outcome, finishes, ret_in, ret_out, exc_in, exc_out) ==
    [kind |-> f.kind, outcome |-> outcome, entry_level |-> f.entry_level,
     entry_flags |-> f.saved, start_lines |-> f.start_lines, finish_lines |-> finishes,
     ret_in |-> ret_in, ret_out |-> ret_out, exc_in |-> exc_in, exc_out |-> exc_out]

InitLogger ==
    /\ log \in {LogCall(NewLog, s, f) : s \in BOOLEAN, f \in BOOLEAN}
    /\ verbose \in BOOLEAN
    /\ stack = <<>>
    /\ exc = "none"
    /\ last = NoLast
    /\ lastwrite = NoWrite

\* script_wrapper is entered: lines 89-96.
Call ==
    /\ CanRun
    /\ Len(stack) < MaxDepth
    /\ log.indentation_level < MaxLevel
    /\ LET r == wrapper_start(log, verbose)
       IN /\ log' = r.log
          /\ stack' = Append(stack, Frame("call", "START", r.saved, log.indentation_level,
                                          Len(r.out.file)))
          /\ lastwrite' = [file |-> r.out.file, stream |-> r.out.stream, depth |-> Depth]
    /\ last' = NoLast
    /\ UNCHANGED <<verbose, exc>>

\* script_wrapper invokes the wrapped callable: lines 98-102.
Invoke ==
    /\ exc = "none"
    /\ stack # <<>>
    /\ Last(stack).st = "START"
    /\ log' = wrapper_invoke(log)
    /\ stack' = [stack EXCEPT ![Len(stack)].st = "RUNNING"]
    /\ last' = NoLast
    /\ lastwrite' = NoWrite
    /\ UNCHANGED <<verbose, exc>>

\* The wrapped callable returns v: lines 101-108.
Return ==
    /\ CanRun
    /\ stack # <<>>
    /\ Last(stack).kind = "call"
    /\ \E v \in Values :
         LET f == Last(stack)
             r == wrapper_return(log, f.saved, verbose, v)
         IN /\ log' = r.log
            /\ last' = Exited(f, "return", Len(r.out.file), v, r.ret, "none", "none")
            /\ lastwrite' = [file |-> r.out.file, stream |-> r.out.stream, depth |-> Depth - 1]
    /\ stack' = Front(stack)
    /\ UNCHANGED <<verbose, exc>>

\* `with log.indentation():` is entered by user code.
EnterIndent ==
    /\ CanRun
    /\ Len(stack) < MaxDepth
    /\ log.indentation_level < MaxLevel
    /\ stack' = Append(stack, Frame("indent", "RUNNING", reset_enter(log),
                                    log.indentation_level, 0))
    /\ log' = indentation_enter(log)
    /\ last' = NoLast
    /\ lastwrite' = NoWrite
    /\ UNCHANGED <<verbose, exc>>

\* `with log.reset_output_channels_soon():` is entered by user code.
EnterReset ==
    /\ CanRun
    /\ Len(stack) < MaxDepth
    /\ stack' = Append(stack, Frame("reset", "RUNNING", reset_enter(log),
                                    log.indentation_level, 0))
    /\ last' = NoLast
    /\ lastwrite' = NoWrite
    /\ UNCHANGED <<log, verbose, exc>>

\* The block of a user-level scope ends normally.
ExitScope ==
    /\ CanRun
    /\ stack # <<>>
    /\ Last(stack).kind \in {"indent", "reset"}
    /\ LET f == Last(stack)
       IN /\ log' = IF f.kind = "indent" THEN indentation_exit(log)
                    ELSE reset_exit(log, f.saved)
          /\ last' = Exited(f, "return", 0, "none", "none", "none", "none")
    /\ stack' = Front(stack)
    /\ lastwrite' = NoWrite
    /\ UNCHANGED <<verbose, exc>>

\* What leaving frame f by exception e does to the log.
fail_exit(l, f, e) ==
    CASE f.kind = "indent" -> [log |-> indentation_fail(l), out |-> <<>>, exc |-> e]
      [] f.kind = "reset" -> [log |-> reset_fail(l, f.saved), out |-> <<>>, exc |-> e]
      [] OTHER -> LET r == wrapper_raise(l, f.saved, e)
                  IN [log |-> r.log, out |-> r.out.file, exc |-> r.exc]

\* The code of the innermost block raises e, which leaves that block.
Raise ==
    /\ CanRun
    /\ stack # <<>>
    /\ \E e \in Excs :
         LET f == Last(stack)
             r == fail_exit(log, f, e)
         IN /\ log' = r.log
            /\ exc' = r.exc
            /\ last' = Exited(f, "raise", Len(r.out), "none", "none", e, r.exc)
    /\ stack' = Front(stack)
    /\ lastwrite' = NoWrite
    /\ UNCHANGED verbose

\* The exception is not handled in the enclosing block and leaves it too.
Propagate ==
    /\ exc # "none"
    /\ stack # <<>>
    /\ LET f == Last(stack)
           r == fail_exit(log, f, exc)
       IN /\ log' = r.log
          /\ exc' = r.exc
          /\ last' = Exited(f, "raise", Len(r.out), "none", "none", exc, r.exc)
    /\ stack' = Front(stack)
    /\ lastwrite' = NoWrite
    /\ UNCHANGED verbose

\* The enclosing code (a method of the script, or the caller at top level)
\* catches the exception and continues.
Catch ==
    /\ exc # "none"
    /\ exc' = "none"
    /\ last' = NoLast
    /\ lastwrite' = NoWrite
    /\ UNCHANGED <<log, verbose, stack>>

\* User code switches the channels: log(to_stream=s, to_file=f).
SetChannels ==
    /\ CanRun
    /\ \E s \in BOOLEAN, f \in BOOLEAN : log' = LogCall(log, s, f)
    /\ log' # log
    /\ last' = NoLast
    /\ lastwrite' = NoWrite
    /\ UNCHANGED <<verbose, stack, exc>>

\* User code writes text: log.write(text, to_stream, to_file).
Write ==
    /\ CanRun
    /\ \E t \in Texts, s \in OptBool, f \in OptBool :
         LET out == write(log, t, s, f)
         IN lastwrite' = [file |-> out.file, stream |-> out.stream, depth |-> Depth]
    /\ last' = NoLast
    /\ UNCHANGED <<log, verbose, stack, exc>>

(***************************************************************************)
(* Widget.from_argument.  An Argument is its class, its choices, its       *)
(* default, its widget_magnitude and, for a DictArgument, the deep_type of *)
(* its validator.  The classes of iotools.command.argument are taken to be *)
(* siblings under Argument, so at most one isinstance test holds.          *)
(***************************************************************************)
ArgumentKinds ==
    {"StringArgument", "BooleanArgument", "IntegerArgument", "FloatArgument",
     "FileArgument", "DirArgument", "DateTimeArgument", "DateArgument",
     "ListArgument", "DictArgument", "Argument"}

Defaults == {Omitted, Given("d1"), Given("d2")}
BoolDefaults == {Omitted, Given("True"), Given("False")}
ChoiceSets == {Omitted, Given(<<>>), Given(<<"c1", "c2">>)}
Magnitudes == {Omitted, Given(1), Given(2)}

Arguments ==
    [kind : ArgumentKinds \ {"BooleanArgument", "DictArgument"}, choices : ChoiceSets,
     default : Defaults, widget_magnitude : Magnitudes, deep_type : {"n/a"}]
    \cup [kind : {"BooleanArgument"}, choices : ChoiceSets,
          default : BoolDefaults, widget_magnitude : Magnitudes, deep_type : {"n/a"}]
    \cup [kind : {"DictArgument"}, choices : ChoiceSets,
          default : Defaults, widget_magnitude : Magnitudes, deep_type : {"str_bool", "str_int"}]

NoHandler ==
    [widget |-> "pending", state |-> Omitted, choices |-> Omitted, magnitude |-> Omitted,
     argument |-> Omitted, error |-> "none"]

\* A widget class is constructed: the handle holds the state it was given.
NewWidget(widget, state, choices, magnitude) ==
    [widget |-> widget, state |-> state, choices |-> choices, magnitude |-> magnitude,
     argument |-> Omitted, error |-> "none"]

\* CheckBar(choices=mapping): one check box per key, checked as the mapping
\* says, so the mapping is its state.
NewCheckBar(mapping) == NewWidget("CheckBar", mapping, mapping, Omitted)

\* WidgetHandler.with_argument: the handle is bound to the argument.
with_argument(h, a) == [h EXCEPT !.argument = Given(a)]

\* A variant that tests for the string-to-boolean dictionary before the choices.
Rule_checkbar_first(a) ==
    IF a.kind = "DictArgument" /\ a.deep_type = "str_bool" THEN "str_bool"
    ELSE IF a.choices # Omitted THEN "choices"
    ELSE IF a.kind \in {"BooleanArgument", "IntegerArgument", "FloatArgument",
                        "FileArgument", "DirArgument", "DateTimeArgument",
                        "DateArgument", "StringArgument", "ListArgument",
                        "DictArgument"} THEN a.kind
    ELSE "unsupported"

\* The conditions of the if/elif chain, in order: the first that holds.
Rule(a) ==
    IF a.choices # Omitted THEN "choices"
    ELSE IF a.kind = "DictArgument" /\ a.deep_type = "str_bool" THEN "str_bool"
    ELSE IF a.kind \in {"BooleanArgument", "IntegerArgument", "FloatArgument",
                        "FileArgument", "DirArgument", "DateTimeArgument",
                        "DateArgument", "StringArgument", "ListArgument",
                        "DictArgument"} THEN a.kind
    ELSE "unsupported"

\* A variant with the wrong fallback.
checkbox_state_true(a) == Given(Else(a.default, "True"))

\* Checkbox(state=Maybe(arg.default).else_(False))
checkbox_state(a) == Given(Else(a.default, "False"))

\* arg.widget_magnitude and arg.widget_magnitude > 1
multi_line(a) == IF a.widget_magnitude = Omitted THEN FALSE ELSE a.widget_magnitude[1] > 1

\* The branch taken under each condition.
Build(a, rule) ==
    CASE rule = "choices" -> NewWidget("DropDown", a.default, a.choices, Omitted)
      [] rule = "str_bool" -> NewCheckBar(a.default)
      [] rule = "BooleanArgument" -> NewWidget("Checkbox", checkbox_state(a), Omitted, Omitted)
      [] rule = "IntegerArgument" -> NewWidget("IntEntry", a.default, Omitted, Omitted)
      [] rule = "FloatArgument" -> NewWidget("FloatEntry", a.default, Omitted, Omitted)
      [] rule = "FileArgument" -> NewWidget("FileSelect", a.default, Omitted, Omitted)
      [] rule = "DirArgument" -> NewWidget("DirSelect", a.default, Omitted, Omitted)
      [] rule = "DateTimeArgument" ->
            NewWidget("DateTimeEdit", a.default, Omitted, a.widget_magnitude)
      [] rule = "DateArgument" -> NewWidget("Calendar", a.default, Omitted, Omitted)
      [] rule = "StringArgument" ->
            IF multi_line(a) THEN NewWidget("Text", a.default, Omitted, a.widget_magnitude)
            ELSE NewWidget("Entry", a.default, Omitted, Omitted)
      [] rule = "ListArgument" -> NewWidget("List", a.default, Omitted, Omitted)
      [] rule = "DictArgument" -> NewWidget("Tree", a.default, Omitted, Omitted)
      [] OTHER -> [NoHandler EXCEPT !.widget = "none", !.error = "TypeError"]

\* Widget.from_argument: the handle bound to its argument, or the TypeError.
from_argument(a) ==
    LET h == Build(a, Rule(a))
    IN IF h.error = "none" THEN with_argument(h, a) ELSE h

InitWidget == arg \in Arguments /\ handler = NoHandler

FromArgument ==
    /\ handler.widget = "pending"
    /\ handler' = from_argument(arg)
    /\ UNCHANGED arg

(***************************************************************************)
(* FunctionSpec.  A member reference is a plain function, a staticmethod,  *)
(* a classmethod, another object that has a __func__ attribute (a bound    *)
(* method), or an object without one (a property, a number, a class).      *)
(***************************************************************************)
ReferenceKinds == {"function", "staticmethod", "classmethod", "method", "other"}
Parents == {"Script", "MyScript", "Inner"}
MemberNames == {"__init__", "run", "helper"}

References == [parent : Parents, name : MemberNames, kind : ReferenceKinds]

has_func(r) == r.kind \in {"staticmethod", "classmethod", "method"}

NoSpec ==
    [stage |-> "pending", class_ |-> "none", name |-> <<>>, func |-> "none",
     type |-> "none", is_static |-> FALSE, is_instance |-> FALSE, is_class |-> FALSE,
     is_bound |-> FALSE, error |-> "none"]

NoWrapped == [stage |-> "pending", binding |-> "none", func |-> "none",
              wraps |-> "none", error |-> "none", names |-> <<>>]

\* FunctionSpec.__init__.  Line 25 reads parent_reference.__func__ of every
\* reference that is not a plain function, before the type is decided.
FunctionSpec(r) ==
    IF r.kind # "function" /\ ~has_func(r)
    THEN [NoSpec EXCEPT !.stage = "failed", !.error = "AttributeError"]
    ELSE LET type == IF r.kind = "function" THEN "instance"
                     ELSE IF r.kind = "staticmethod" THEN "static"
                     ELSE IF r.kind = "classmethod" THEN "class"
                     ELSE "unknown"
         IN [stage |-> "classified", class_ |-> r.parent, name |-> <<r.parent, r.name>>,
             func |-> "original", type |-> type,
             is_static |-> type = "static", is_instance |-> type = "instance",
             is_class |-> type = "class",
             is_bound |-> type = "instance" \/ type = "class", error |-> "none"]

\* FunctionSpec.wrap(func): the same kind of wrapper around the new callable,
\* with the metadata of the original; a ValueError naming the record else.
wrap(fs, func) ==
    IF fs.is_instance \/ fs.is_static \/ fs.is_class
    THEN [stage |-> "wrapped",
          binding |-> IF fs.is_instance THEN "plain"
                      ELSE IF fs.is_static THEN "staticmethod" ELSE "classmethod",
          func |-> func, wraps |-> fs.func, error |-> "none", names |-> <<>>]
    ELSE [NoWrapped EXCEPT !.stage = "failed", !.error = "ValueError", !.names = fs.name]

InitClassifier == ref \in References /\ fspec = NoSpec /\ wrapped = NoWrapped

Classify ==
    /\ fspec.stage = "pending"
    /\ fspec' = FunctionSpec(ref)
    /\ UNCHANGED <<ref, wrapped>>

Wrap ==
    /\ fspec.stage = "classified"
    /\ wrapped.stage = "pending"
    /\ wrapped' = wrap(fspec, "script_wrapper")
    /\ UNCHANGED <<ref, fspec>>

(***************************************************************************)
(* ScriptMeta and Script.  Four classes stand for the shapes a class can   *)
(* have: Script itself, a subclass with a constructor of its own, one that *)
(* inherits the constructor, one whose constructor calls super().__init__. *)
(***************************************************************************)
Classes == {"Script", "Own", "Inherit", "Super"}
ClassOrder == <<"Script", "Own", "Inherit", "Super">>

Base(c) == IF c = "Script" THEN "object" ELSE "Script"
\* "__init__" is in vars(c)
DefinesInit(c) == c \in {"Script", "Own", "Super"}
\* the body of c.__init__ calls super().__init__
CallsSuper(c) == c = "Super"
\* the body of c.__init__ is written by the user (Script's own is `pass`)
UserBody(c) == c \in {"Own", "Super"}

Layer(kind, c, mode) == [layer |-> kind, cls |-> c, mode |-> mode]

\* What ScriptMeta.__init__ leaves in cls.__init__, outermost wrapper first:
\* _recursively_wrap profiles an __init__ found in vars(cls); then whatever
\* cls.__init__ resolves to, the class's own or the (already wrapped)
\* inherited one, is wrapped by _constructor_wrapper.
RECURSIVE Constructor(_)
Constructor(c) ==
    <<Layer("init_wrapper", c, "none")>>
    \o (IF DefinesInit(c)
        THEN <<Layer("profiled", c, "none"), Layer("body", c, "none")>>
        ELSE Constructor(Base(c)))

\* Script.exec_prog, exec_gui, exec_cl: class methods found in vars(Script),
\* so _recursively_wrap profiles them with Script's profiler.
RunModes == {"PROGRAMMATIC", "GUI", "COMMANDLINE"}
EntryPoint(c, mode) == <<Layer("profiled", "Script", "none"), Layer("exec", c, mode)>>

\* Keyword arguments: a set of <<name, value>> pairs.
Kwargs == {{}, {<<"x", "1">>}, {<<"x", "1">>, <<"run_mode", "GUI">>}}
HasKey(kw, k) == \E pr \in kw : pr[1] = k

\* Exceptions: those under Exception, and one that is only a BaseException.
NoExc == "none"
IsException(e) == e \in {"ValueError", "AttributeError", "TypeError"}
BodyOutcomes == {"return", "ValueError", "SystemExit"}

TraceText == <<"Traceback", "Error">>

Ev(ev, src, lg, kw, e, file, stream) ==
    [ev |-> ev, src |-> src, log |-> lg, kw |-> kw, exc |-> e, file |-> file,
     stream |-> stream]

NoLogs == [c \in Classes |-> 0]
NoScript == [cls |-> "none", arguments |-> {}, log |-> 0]

RECURSIVE RunChain(_, _, _, _)

\* A variant that pickles only the object of a constructor that succeeded.
after_body_skips_pickle(st, c, e, cfg) ==
    LET caught == e # NoExc /\ IsException(e)
        out == write(st.logs[st.script.log], TraceText, Given(FALSE), Omitted)
        traced == IF caught
                  THEN <<Ev("trace", c, st.script.log, {}, e, Len(out.file), Len(out.stream))>>
                  ELSE <<>>
        pickled == IF cfg.serialize /\ e = NoExc
                   THEN <<Ev("serialize", c, st.script.log, {}, NoExc, 0, 0)>>
                   ELSE <<>>
        raised == IF caught THEN <<Ev("reraise", c, 0, {}, e, 0, 0)>> ELSE <<>>
    IN IF e # NoExc /\ ~caught
       THEN [st |-> st, exc |-> e]
       ELSE [st |-> [st EXCEPT !.events = @ \o traced \o pickled \o raised], exc |-> e]

\* init_wrapper, lines 145-157: what follows the call of func, which left
\* the exception e (or none).  Only an Exception is caught; its trace goes
\* through script.log.write(..., to_stream=False), the object is pickled if
\* script.serialize, and the exception caught is raised again.
after_body(st, c, e, cfg) ==
    LET caught == e # NoExc /\ IsException(e)
        out == write(st.logs[st.script.log], TraceText, Given(FALSE), Omitted)
        traced == IF caught
                  THEN <<Ev("trace", c, st.script.log, {}, e, Len(out.file), Len(out.stream))>>
                  ELSE <<>>
        pickled == IF cfg.serialize
                   THEN <<Ev("serialize", c, st.script.log, {}, NoExc, 0, 0)>>
                   ELSE <<>>
        raised == IF caught THEN <<Ev("reraise", c, 0, {}, e, 0, 0)>> ELSE <<>>
    IN IF e # NoExc /\ ~caught
       THEN [st |-> st, exc |-> e]
       ELSE [st |-> [st EXCEPT !.events = @ \o traced \o pickled \o raised], exc |-> e]

\* init_wrapper(script, **kwargs) of class c around func, lines 133-157.
init_wrapper(st, c, func, kw, cfg) ==
    LET id == Len(st.logs) + 1
        st1 == [st EXCEPT !.script.arguments = kw,
                          !.script.log = id,
                          !.logs = Append(@, NewLog),
                          !.plog[st.script.cls] = id,
                          !.events = @ \o <<Ev("arguments", c, 0, kw, NoExc, 0, 0),
                                            Ev("log", c, id, {}, NoExc, 0, 0)>>]
        r == RunChain(st1, func, kw, cfg)
    IN after_body(r.st, c, r.exc, cfg)

\* script_wrapper of the profiler of class c around func.  self.log is read
\* again for the finish-line, while the two scopes opened on entry belong
\* to the log read then.
profiled(st, c, func, kw, cfg) ==
    IF st.plog[c] = 0
    THEN [st |-> [st EXCEPT !.events = Append(@, Ev("raise", c, 0, {}, "AttributeError", 0, 0))],
          exc |-> "AttributeError"]
    ELSE
    LET lg == st.plog[c]
        s == wrapper_start(st.logs[lg], verbose)
        st1 == [st EXCEPT !.logs[lg] = wrapper_invoke(s.log),
                          !.events = Append(@, Ev("start", c, lg, {}, NoExc,
                                                  Len(s.out.file), Len(s.out.stream)))]
        r == RunChain(st1, func, kw, cfg)
        cur == r.st.plog[c]
        left == [r.st.logs EXCEPT ![lg] = indentation_exit(@)]
        shown == [left EXCEPT ![cur] = LogCall(@, verbose, TRUE)]
        out == write(shown[cur], FinishText, Omitted, Omitted)
        done == [shown EXCEPT ![lg] = reset_exit(@, s.saved)]
    IN IF r.exc # NoExc
       THEN [st |-> [r.st EXCEPT !.logs[lg] = wrapper_raise(@, s.saved, r.exc).log],
             exc |-> wrapper_raise(r.st.logs[lg], s.saved, r.exc).exc]
       ELSE [st |-> [r.st EXCEPT !.logs = done,
                                 !.events = Append(@, Ev("finish", c, cur, {}, NoExc,
                                                         Len(out.file), Len(out.stream)))],
             exc |-> NoExc]

\* The body of c.__init__.  Script's is `pass`.  A user's body may first call
\* super().__init__ (with its own keyword arguments or with none), may switch
\* the file channel of the log off, and then returns or raises.
body(st, c, kw, cfg) ==
    LET r == IF CallsSuper(c)
             THEN RunChain(st, Constructor(Base(c)),
                           IF cfg.superkw = "same" THEN kw ELSE {}, cfg)
             ELSE [st |-> st, exc |-> NoExc]
        st1 == IF UserBody(c) /\ cfg.file_off
               THEN [r.st EXCEPT !.logs[r.st.script.log] = LogCall(@, TRUE, FALSE)]
               ELSE r.st
    IN IF r.exc # NoExc THEN r
       ELSE IF UserBody(c) /\ cfg.beh # "return"
       THEN [st |-> [st1 EXCEPT !.events = Append(@, Ev("raise", c, 0, {}, cfg.beh, 0, 0))],
             exc |-> cfg.beh]
       ELSE [st |-> st1, exc |-> NoExc]

\* The body of exec_prog/exec_gui/exec_cl: cls(run_mode=mode, **arguments).
exec_body(st, c, mode, arguments, cfg) ==
    IF HasKey(arguments, "run_mode")
    THEN [st |-> [st EXCEPT !.events = Append(@, Ev("raise", "exec", 0, {}, "TypeError", 0, 0))],
          exc |-> "TypeError"]
    ELSE RunChain([st EXCEPT !.script = [NoScript EXCEPT !.cls = c]], Constructor(c),
                  arguments \cup {<<"run_mode", mode>>}, cfg)

\* Calling the first function of the chain, which calls the next.
RunChain(st, chain, kw, cfg) ==
    LET f == Head(chain)
    IN CASE f.layer = "init_wrapper" -> init_wrapper(st, f.cls, Tail(chain), kw, cfg)
         [] f.layer = "profiled" -> profiled(st, f.cls, Tail(chain), kw, cfg)
         [] f.layer = "body" -> body(st, f.cls, kw, cfg)
         [] OTHER -> exec_body(st, f.cls, f.mode, kw, cfg)

Configs ==
    [beh : BodyOutcomes, file_off : BOOLEAN, superkw : {"same", "empty"},
     serialize : BOOLEAN]

\* The choices that matter for class c.
ConfigsOf(c) ==
    {cfg \in Configs :
        /\ UserBody(c) \/ cfg.beh = "return"
        /\ cfg.file_off => cfg.beh = "ValueError"
        /\ CallsSuper(c) \/ cfg.superkw = "same"}

NoRun ==
    [entry |-> "none", cls |-> "none", kw |-> {}, cfg |-> "none", pre |-> "none",
     events |-> <<>>, outcome |-> NoExc, script |-> NoScript]

\* The profilers' logs that are still referred to, renumbered in class order
\* (a log no profiler refers to plays no part in what follows).
Kept(pl) == SelectSeq(ClassOrder, LAMBDA c : pl[c] # 0)
KeptLogs(pl, lgs) == [i \in 1..Len(Kept(pl)) |-> lgs[pl[Kept(pl)[i]]]]
KeptPlog(pl) ==
    [c \in Classes |->
        IF pl[c] = 0 THEN 0
        ELSE CHOOSE i \in 1..Len(Kept(pl)) : Kept(pl)[i] = c]

Started(c) == [plog |-> plog, logs |-> logs, script |-> [NoScript EXCEPT !.cls = c],
               events |-> <<>>]

Finished(entry, c, kw, cfg, r) ==
    /\ run' = [entry |-> entry, cls |-> c, kw |-> kw, cfg |-> cfg,
               pre |-> [plog |-> plog, logs |-> logs],
               events |-> r.st.events, outcome |-> r.exc, script |-> r.st.script]
    /\ plog' = KeptPlog(r.st.plog)
    /\ logs' = KeptLogs(r.st.plog, r.st.logs)

InitScript == plog = NoLogs /\ logs = <<>> /\ run = NoRun

Leaky == \E i \in 1..Len(logs) : logs[i].indentation_level >= MaxLevel

\* The caller constructs c(**kw).
Construct ==
    /\ run.entry = "none"
    /\ ~Leaky
    /\ \E c \in Classes, kw \in Kwargs :
         \E cfg \in ConfigsOf(c) :
            Finished("direct", c, kw, cfg, RunChain(Started(c), Constructor(c), kw, cfg))
    /\ UNCHANGED verbose

\* The caller calls c.exec_prog(**arguments), c.exec_gui or c.exec_cl.
Exec ==
    /\ run.entry = "none"
    /\ ~Leaky
    /\ \E c \in Classes, mode \in RunModes, arguments \in Kwargs :
         \E cfg \in ConfigsOf(c) :
            Finished(mode, c, arguments, cfg,
                     RunChain(Started("none"), EntryPoint(c, mode), arguments, cfg))
    /\ UNCHANGED verbose
\* The caller has the object or the exception and goes on.
Resume ==
    /\ run.entry # "none"
    /\ run' = NoRun
    /\ UNCHANGED <<verbose, plog, logs>>

(***************************************************************************)
(* Specifications.  Each one drives one part of the program and leaves the *)
(* variables of the other parts at rest.                                   *)
(***************************************************************************)
IdleLogger ==
    /\ log = NewLog
    /\ verbose = FALSE
    /\ stack = <<>>
    /\ exc = "none"
    /\ last = NoLast
    /\ lastwrite = NoWrite

IdleWidget == arg = "none" /\ handler = NoHandler

IdleClassifier == ref = "none" /\ fspec = NoSpec /\ wrapped = NoWrapped

IdleScript == plog = NoLogs /\ logs = <<>> /\ run = NoRun

\* Profiled calls on one log, the code inside them writing and switching
\* the channels.
NextCalls ==
    \/ (Call /\ UNCHANGED <<widgetvars, classvars, scriptvars>>)
    \/ (Invoke /\ UNCHANGED <<widgetvars, classvars, scriptvars>>)
    \/ (Return /\ UNCHANGED <<widgetvars, classvars, scriptvars>>)
    \/ (Raise /\ UNCHANGED <<widgetvars, classvars, scriptvars>>)
    \/ (Propagate /\ UNCHANGED <<widgetvars, classvars, scriptvars>>)
    \/ (Catch /\ UNCHANGED <<widgetvars, classvars, scriptvars>>)
    \/ (Write /\ UNCHANGED <<widgetvars, classvars, scriptvars>>)
    \/ (SetChannels /\ UNCHANGED <<widgetvars, classvars, scriptvars>>)

\* Profiled calls, user-level scopes and channel changes.
NextLogger ==
    \/ (Call /\ UNCHANGED <<widgetvars, classvars, scriptvars>>)
    \/ (Invoke /\ UNCHANGED <<widgetvars, classvars, scriptvars>>)
    \/ (Return /\ UNCHANGED <<widgetvars, classvars, scriptvars>>)
    \/ (Raise /\ UNCHANGED <<widgetvars, classvars, scriptvars>>)
    \/ (Propagate /\ UNCHANGED <<widgetvars, classvars, scriptvars>>)
    \/ (Catch /\ UNCHANGED <<widgetvars, classvars, scriptvars>>)
    \/ (EnterIndent /\ UNCHANGED <<widgetvars, classvars, scriptvars>>)
    \/ (EnterReset /\ UNCHANGED <<widgetvars, classvars, scriptvars>>)
    \/ (ExitScope /\ UNCHANGED <<widgetvars, classvars, scriptvars>>)
    \/ (SetChannels /\ UNCHANGED <<widgetvars, classvars, scriptvars>>)

InitLog == InitLogger /\ IdleWidget /\ IdleClassifier /\ IdleScript

SpecCalls == InitLog /\ [][NextCalls]_vars

SpecLog == InitLog /\ [][NextLogger]_vars

NextWidget == FromArgument /\ UNCHANGED <<logvars, classvars, scriptvars>>

InitWidgets == InitWidget /\ IdleLogger /\ IdleClassifier /\ IdleScript

SpecWidget == InitWidgets /\ [][NextWidget]_vars

NextClassifier ==
    \/ (Classify /\ UNCHANGED <<logvars, widgetvars, scriptvars>>)
    \/ (Wrap /\ UNCHANGED <<logvars, widgetvars, scriptvars>>)

InitClassifiers == InitClassifier /\ IdleLogger /\ IdleWidget /\ IdleScript

SpecClassifier == InitClassifiers /\ [][NextClassifier]_vars

NextScript ==
    \/ (Construct /\ UNCHANGED <<log, stack, exc, last, lastwrite, widgetvars, classvars>>)
    \/ (Exec /\ UNCHANGED <<log, stack, exc, last, lastwrite, widgetvars, classvars>>)
    \/ (Resume /\ UNCHANGED <<log, stack, exc, last, lastwrite, widgetvars, classvars>>)

InitScripts ==
    /\ InitScript
    /\ log = NewLog /\ verbose \in BOOLEAN /\ stack = <<>> /\ exc = "none"
    /\ last = NoLast /\ lastwrite = NoWrite
    /\ IdleWidget /\ IdleClassifier

SpecScript == InitScripts /\ [][NextScript]_vars

(***************************************************************************)
(* The claims.                                                             *)
(***************************************************************************)
Flags(l) == <<l.to_stream, l.to_file>>
Count(evs, kind) == Cardinality({i \in 1..Len(evs) : evs[i].ev = kind})

\* The events of the construction itself: those of a direct construction,
\* or what lies inside the profiled entry point (after its start-line and
\* before its finish-line); nothing if the entry point failed before
\* constructing (a construction leaves at least two events).
ConstructionEvents ==
    LET evs == run.events
    IN IF run.entry = "direct" THEN evs
       ELSE IF Len(evs) < 3 \/ evs[1].ev # "start" THEN <<>>
       ELSE IF run.outcome = NoExc THEN SubSeq(evs, 2, Len(evs) - 1)
       ELSE SubSeq(evs, 2, Len(evs))

\* The constructor wrapped by the outermost init_wrapper raised.
BodyRaised == \E i \in 1..Len(ConstructionEvents) : ConstructionEvents[i].ev = "raise"
FirstRaise ==
    LET evs == ConstructionEvents
    IN evs[CHOOSE i \in 1..Len(evs) :
              evs[i].ev = "raise" /\ \A j \in 1..(i - 1) : evs[j].ev # "raise"].exc

\* The construction ends: trace of e, pickle if serialize, e raised again.
EndsHandled(e) ==
    LET evs == ConstructionEvents
        n == Len(evs)
        t == IF run.cfg.serialize THEN n - 2 ELSE n - 1
    IN /\ n >= 3
       /\ evs[n].ev = "reraise" /\ evs[n].exc = e
       /\ run.cfg.serialize => evs[n - 1].ev = "serialize"
       /\ evs[t].ev = "trace" /\ evs[t].exc = e /\ evs[t].stream = 0
       /\ run.outcome = e

TraceInFile ==
    LET evs == ConstructionEvents
        t == IF run.cfg.serialize THEN Len(evs) - 2 ELSE Len(evs) - 1
    IN evs[t].file > 0

C2_IndentationRestored ==
    last.kind \in {"indent", "call"} => log.indentation_level = last.entry_level

C4_ChannelsRestored ==
    last.kind \in {"reset", "call"} => Flags(log) = last.entry_flags

\* C5: classifying a reference always yields a record, of kind instance for
\* a function, static for a staticmethod, class for a classmethod and unknown
\* for anything else; only wrap() of an unknown record fails, with an error
\* naming the record.
C5_ClassificationTotal ==
    /\ fspec.stage # "pending" =>
          /\ fspec.stage = "classified"
          /\ fspec.type = (CASE ref.kind = "function" -> "instance"
                             [] ref.kind = "staticmethod" -> "static"
                             [] ref.kind = "classmethod" -> "class"
                             [] OTHER -> "unknown")
    /\ wrapped.stage # "pending" =>
          IF fspec.type = "unknown"
          THEN wrapped.error = "ValueError" /\ wrapped.names = <<ref.parent, ref.name>>
          ELSE wrapped.error = "none"

\* C6: a call of exec_prog, exec_gui or exec_cl does what constructing the
\* class with the same keyword arguments plus run_mode does from the same
\* state: the same events of the construction, the same object, the same
\* exception or none.
C6_EntryPointsLikeDirect ==
    (run.entry \in RunModes /\ ~HasKey(run.kw, "run_mode")) =>
        LET d == RunChain([plog |-> run.pre.plog, logs |-> run.pre.logs,
                           script |-> [NoScript EXCEPT !.cls = run.cls],
                           events |-> <<>>],
                          Constructor(run.cls),
                          run.kw \cup {<<"run_mode", run.entry>>}, run.cfg)
        IN /\ run.outcome = d.exc
           /\ ConstructionEvents = d.st.events
           /\ run.script = d.st.script

\* C7 as stated: the handle is seeded with the argument's default.
C7_SeededWithDefault ==
    handler.widget \notin {"pending", "none"} => handler.state = arg.default

\* C7 as amended: the handle is seeded with the argument's default, except
\* that the check box of a boolean argument without choices and without a
\* default is seeded with False.
C7_SeededWithDefaultOrFalse ==
    handler.widget \notin {"pending", "none"} =>
        handler.state =
            IF arg.kind = "BooleanArgument" /\ arg.choices = Omitted /\ arg.default = Omitted
            THEN Given("False")
            ELSE arg.default

C7_Witness ==
    /\ handler.widget = "Checkbox"
    /\ arg.default = Omitted
    /\ handler.state = Given("False")

\* The widget the spec's dispatch table gives each kind (rule 3).
KindWidget(a) ==
    CASE a.kind = "BooleanArgument" -> "Checkbox"
      [] a.kind = "IntegerArgument" -> "IntEntry"
      [] a.kind = "FloatArgument" -> "FloatEntry"
      [] a.kind = "FileArgument" -> "FileSelect"
      [] a.kind = "DirArgument" -> "DirSelect"
      [] a.kind = "DateTimeArgument" -> "DateTimeEdit"
      [] a.kind = "DateArgument" -> "Calendar"
      [] a.kind = "StringArgument" ->
            IF a.widget_magnitude = Given(2) THEN "Text" ELSE "Entry"
      [] a.kind = "ListArgument" -> "List"
      [] a.kind = "DictArgument" -> "Tree"
      [] OTHER -> "none"

\* C8: the first rule that matches decides: choices give the selection
\* control whatever the kind, a string-to-boolean dictionary without choices
\* gives the multi-check control, otherwise the kind decides, and the
\* TypeError is raised, with no widget, exactly when no rule matches.
C8_DispatchOrder ==
    handler.widget # "pending" =>
        /\ arg.choices # Omitted => handler.widget = "DropDown"
        /\ (arg.choices = Omitted /\ arg.kind = "DictArgument" /\ arg.deep_type = "str_bool")
              => handler.widget = "CheckBar"
        /\ (arg.choices = Omitted /\ ~(arg.kind = "DictArgument" /\ arg.deep_type = "str_bool"))
              => handler.widget = KindWidget(arg)
        /\ handler.error = "TypeError" <=> (arg.choices = Omitted /\ arg.kind = "Argument")
        /\ handler.error = "TypeError" => (handler.widget = "none" /\ handler.argument = Omitted)
        /\ handler.error = "none" => handler.argument = Given(arg)

C8_Witness ==
    /\ handler.widget = "DropDown"
    /\ arg.kind = "DictArgument"
    /\ arg.deep_type = "str_bool"
    /\ arg.choices = Given(<<"c1", "c2">>)

\* C9: whenever no exception is propagating, indentation_level is the number
\* of profiled calls that are executing, and a line written to the file is
\* prefixed with the token repeated that many times.
C9_LevelIsDepth ==
    exc = "none" =>
        /\ log.indentation_level = Depth
        /\ \A i \in 1..Len(lastwrite.file) :
              lastwrite.file[i].line # "" =>
                  lastwrite.file[i].indent = Repeat(indentation_token, lastwrite.depth)

\* C10: one construction creates exactly one log file, records the caller's
\* keyword arguments once and keeps them, and pickles at most once.
C10_LifecycleOnce ==
    run.entry = "direct" =>
        /\ Count(run.events, "log") = 1
        /\ Count(run.events, "arguments") = 1
        /\ run.script.arguments = run.kw
        /\ Count(run.events, "serialize") <= 1

====
